---- MODULE Spec2Model ----
(***************************************************************************)
(* pixelflare-api: the serverless form-submission handlers.                *)
(*                                                                         *)
(* The repository holds seven variants of one HTTP handler                 *)
(* (api/notify.ts holds three, the second source file four).  Each         *)
(* accepts a contact or quote submission, validates it, optionally         *)
(* verifies a reCAPTCHA token, renders an HTML mail and hands it to the    *)
(* mail transport.  One request is one run of one handler; the model       *)
(* follows a request through the handler's awaits.                         *)
(*                                                                         *)
(* Text is a sequence of tokens.  A character the client typed is a        *)
(* one-character token ("<", "a", "\n"); what a conversion emits is a      *)
(* token of its own ("&lt;", "<br>", "N/A"), so that escaped and raw       *)
(* text differ in the model as they do in the mail.                        *)
(***************************************************************************)
EXTENDS Integers, Sequences, FiniteSets, TLC

\* ---------------------------------------------------------------- bounds
\* At most MaxExtra of the fields beside kind, name, fullName, email and
\* recaptchaToken are present in one body.
MaxExtra == 1

\* A goals list sent as an array holds 1..MaxGoals values.
MaxGoals == 2

\* ---------------------------------------------------------------- values
\* The handlers, by source order: api/notify.ts (three), then the second
\* source file (four).
NotifyJson == "notify.ts:5"
NotifyForm == "notify.ts:69"
NotifyFormCors == "notify.ts:215"
CaptchaJson == "part_000:30"
FormHandler == "part_000:183"
MixedHandler == "part_000:318"
JsonHandler == "part_000:445"

Handlers ==
  {NotifyJson, NotifyForm, NotifyFormCors, CaptchaJson, FormHandler, MixedHandler, JsonHandler}

\* Handlers that read the platform-parsed req.body and check kind, name and email.
BodyHandlers == {NotifyJson, JsonHandler}

\* Handlers that always run formidable over the request stream.
FormidableHandlers == {NotifyForm, NotifyFormCors, FormHandler}

Methods == {"OPTIONS", "GET", "POST"}

CTypes == {"application/json", "multipart/form-data", "text/plain"}

\* Sample texts a client types: a plain one, and one holding every HTML
\* metacharacter and a newline.
Plain == <<"a">>
Hostile == <<"<", "&", ">", "\"", "'", "\n", "b">>
Texts == {Plain, Hostile}

MetaChars == {"&", "<", ">", "\"", "'"}

\* A JavaScript value of a body field: undefined, a string, or an array of strings.
Absent == [arr |-> FALSE, items |-> <<>>]
Str(t) == [arr |-> FALSE, items |-> <<t>>]
Arr(l) == [arr |-> TRUE, items |-> l]

\* JavaScript truthiness: undefined and "" are falsy, every array is truthy.
Truthy(v) == v.arr \/ (v.items # <<>> /\ v.items[1] # <<>>)

\* The text of a string value (<<>> for undefined).
TextOf(v) == IF v.items = <<>> THEN <<>> ELSE v.items[1]

IdFields == {"name", "fullName", "email", "recaptchaToken"}

ExtraFields ==
  {"message", "phone", "company", "category", "service", "budget", "timeline",
   "references", "brief", "submittedAt", "goals"}

FieldNames == {"kind"} \cup IdFields \cup ExtraFields

Kinds == {Absent, Str(<<"contact">>), Str(<<"quote">>), Str(<<"feedback">>)}

EmptyFields == [f \in FieldNames |-> Absent]

\* A goals field as a client sends it: one string, or an array of 1..MaxGoals strings.
GoalsValues(t) == {Str(t)} \cup {Arr([i \in 1..k |-> t]) : k \in 1..MaxGoals}

MkBody(k, present, g, t) ==
  [f \in FieldNames |->
     IF f = "kind" THEN k
     ELSE IF f = "goals" THEN (IF "goals" \in present THEN g ELSE Absent)
     ELSE IF f \in present THEN Str(t) ELSE Absent]

ExtraSets == {S \in SUBSET ExtraFields : Cardinality(S) <= MaxExtra}

\* The field mappings a client sends.
Bodies ==
  {MkBody(k, ids \cup ex, g, t) :
     k \in Kinds, ids \in SUBSET IdFields, ex \in ExtraSets,
     g \in UNION {GoalsValues(x) : x \in Texts}, t \in Texts}

\* The uploaded file part named "attachment": none, or a file with its
\* original name (<<>>: the part carries no name) and its bytes.
FileNames == {Hostile, <<>>}
NoFile == [present |-> FALSE, originalFilename |-> <<>>, bytes |-> ""]
Files ==
  {NoFile} \cup
  {[present |-> TRUE, originalFilename |-> n, bytes |-> "PDFDATA"] : n \in FileNames}

\* ---------------------------------------------------------------- helpers
\* esc: the five HTML metacharacters become entities, every other character stays.
EscChar(c) ==
  CASE c = "&" -> "&amp;"
    [] c = "<" -> "&lt;"
    [] c = ">" -> "&gt;"
    [] c = "\"" -> "&quot;"
    [] c = "'" -> "&#39;"
    [] OTHER -> c

esc(s) == [i \in 1..Len(s) |-> EscChar(s[i])]

\* nl2br, and the handlers' inline .replace(/\n/g, "<br>").
nl2br(s) == [i \in 1..Len(s) |-> IF s[i] = "\n" THEN "<br>" ELSE s[i]]

\* v || fallback, as text.
OrElse(v, fallback) == IF Truthy(v) THEN TextOf(v) ELSE <<fallback>>

\* v?.replace(/\n/g, "<br>") || fallback.
BrOrElse(v, fallback) == IF Truthy(v) THEN nl2br(TextOf(v)) ELSE <<fallback>>

\* A template literal's ${v} of a string-or-undefined value.
Interp(v) == IF v.items = <<>> THEN <<"undefined">> ELSE TextOf(v)

\* items.join(", ")
RECURSIVE JoinComma(_)
JoinComma(items) ==
  IF items = <<>> THEN <<>>
  ELSE IF Len(items) = 1 THEN items[1]
  ELSE items[1] \o <<", ">> \o JoinComma(Tail(items))

\* body.kind === "quote"
IsQuote(b) == b["kind"] = Str(<<"quote">>)

\* body.kind === "contact"
IsContact(b) == b["kind"] = Str(<<"contact">>)

\* One interpolation of the HTML template: which part of the mail, and its text.
Seg(part, text) == [part |-> part, text |-> text]

\* A heading that takes every kind but "contact" for a quote.
HeadingMut(b) ==
  Seg("heading", IF IsContact(b) THEN <<"New Contact Message">> ELSE <<"New Quote Request">>)

\* `New ${body.kind === "quote" ? "Quote Request" : "Contact Message"}`
Heading(b) ==
  Seg("heading", IF IsQuote(b) THEN <<"New Quote Request">> ELSE <<"New Contact Message">>)

\* The fixed subject of every handler but the reCAPTCHA one.
FixedSubject(b) == IF IsQuote(b) THEN <<"New Quote Request">> ELSE <<"New Contact Message">>

\* Array.isArray(body.goals) ? body.goals.join(", ") : body.goals || "N/A"
GoalsText(b) ==
  IF b["goals"].arr THEN JoinComma(b["goals"].items) ELSE OrElse(b["goals"], "N/A")

\* body.name || body.fullName || "N/A"
NameText(b) ==
  IF Truthy(b["name"]) THEN TextOf(b["name"]) ELSE OrElse(b["fullName"], "N/A")

\* The quote block / message block shared by the three long templates.
LongBlock(b) ==
  IF IsQuote(b)
  THEN << Seg("company", OrElse(b["company"], "N/A")),
          Seg("category", OrElse(b["category"], "N/A")),
          Seg("service", OrElse(b["service"], "N/A")),
          Seg("budget", OrElse(b["budget"], "N/A")),
          Seg("timeline", OrElse(b["timeline"], "N/A")),
          Seg("goals", GoalsText(b)),
          Seg("references", OrElse(b["references"], "N/A")),
          Seg("brief", BrOrElse(b["brief"], "(No brief provided)")) >>
  ELSE << Seg("message", BrOrElse(b["message"], "(No message provided)")) >>

\* The computed "Submitted on ..." footer: a timestamp the template formats.
DateFooter == Seg("submitted", <<"DATE">>)

\* notify.ts, first handler: the short template.
HtmlNotifyJson(b) ==
  << Heading(b),
     Seg("name", TextOf(b["name"])),
     Seg("email", TextOf(b["email"])),
     Seg("phone", OrElse(b["phone"], "N/A")),
     Seg("message", OrElse(b["message"], "(No message provided)")) >>

\* notify.ts, second handler: ${file.originalFilename} (null prints as "null").
HtmlNotifyForm(b, file) ==
  << Heading(b),
     Seg("name", NameText(b)),
     Seg("emailHref", TextOf(b["email"])),
     Seg("email", TextOf(b["email"])),
     Seg("phone", OrElse(b["phone"], "N/A")) >>
  \o LongBlock(b)
  \o (IF file.present
      THEN << Seg("attachment",
                  IF file.originalFilename = <<>> THEN <<"null">> ELSE file.originalFilename) >>
      ELSE <<>>)
  \o << DateFooter >>

\* The third handler's template with the attachment line moved below the footer.
HtmlNotifyFormCorsMut(b, file) ==
  << Heading(b),
     Seg("name", NameText(b)),
     Seg("emailHref", TextOf(b["email"])),
     Seg("email", TextOf(b["email"])),
     Seg("phone", OrElse(b["phone"], "N/A")) >>
  \o LongBlock(b)
  \o << DateFooter >>
  \o (IF file.present
      THEN << Seg("attachment",
                  IF file.originalFilename = <<>> THEN <<"attachment">> ELSE file.originalFilename) >>
      ELSE <<>>)

\* notify.ts, third handler: ${file.originalFilename || "attachment"}.
HtmlNotifyFormCors(b, file) ==
  << Heading(b),
     Seg("name", NameText(b)),
     Seg("emailHref", TextOf(b["email"])),
     Seg("email", TextOf(b["email"])),
     Seg("phone", OrElse(b["phone"], "N/A")) >>
  \o LongBlock(b)
  \o (IF file.present
      THEN << Seg("attachment",
                  IF file.originalFilename = <<>> THEN <<"attachment">> ELSE file.originalFilename) >>
      ELSE <<>>)
  \o << DateFooter >>

\* Second source file, last handler: the long template without an attachment line.
HtmlJson(b) ==
  << Heading(b),
     Seg("name", NameText(b)),
     Seg("emailHref", TextOf(b["email"])),
     Seg("email", TextOf(b["email"])),
     Seg("phone", OrElse(b["phone"], "N/A")) >>
  \o LongBlock(b)
  \o << DateFooter >>

\* The formidable-only handler of the second source file: message without line breaks.
HtmlForm(b, file) ==
  << Heading(b),
     Seg("name", NameText(b)),
     Seg("email", TextOf(b["email"])),
     Seg("phone", OrElse(b["phone"], "N/A")) >>
  \o (IF IsQuote(b)
      THEN << Seg("service", OrElse(b["service"], "N/A")),
              Seg("budget", OrElse(b["budget"], "N/A")),
              Seg("brief", BrOrElse(b["brief"], "(none)")) >>
      ELSE << Seg("message", OrElse(b["message"], "(none)")) >>)
  \o (IF file.present
      THEN << Seg("attachment",
                  IF file.originalFilename = <<>> THEN <<"null">> ELSE file.originalFilename) >>
      ELSE <<>>)

\* The multipart-or-JSON handler of the second source file.
HtmlMixed(b, file) ==
  << Heading(b),
     Seg("name", NameText(b)),
     Seg("email", TextOf(b["email"])),
     Seg("phone", OrElse(b["phone"], "N/A")) >>
  \o (IF IsQuote(b)
      THEN << Seg("service", OrElse(b["service"], "N/A")),
              Seg("budget", OrElse(b["budget"], "N/A")),
              Seg("brief", BrOrElse(b["brief"], "(none)")) >>
      ELSE << Seg("message", BrOrElse(b["message"], "(none)")) >>)
  \o (IF file.present
      THEN << Seg("attachment",
                  IF file.originalFilename = <<>> THEN <<"null">> ELSE file.originalFilename) >>
      ELSE <<>>)

\* ${submittedAt ? `... ${esc(submittedAt)} ...` : ""}
EscFooter(b) ==
  IF Truthy(b["submittedAt"])
  THEN << Seg("submitted", esc(TextOf(b["submittedAt"]))) >>
  ELSE <<>>

\* The reCAPTCHA handler's contact template: every value goes through esc.
HtmlCaptchaContact(b) ==
  << Seg("heading", <<"New Contact Message">>),
     Seg("name", esc(TextOf(b["name"]))),
     Seg("email", esc(TextOf(b["email"]))),
     Seg("phone", esc(OrElse(b["phone"], "N/A"))),
     Seg("message", nl2br(esc(TextOf(b["message"])))) >>
  \o EscFooter(b)

\* The reCAPTCHA handler's quote template.
HtmlCaptchaQuote(b) ==
  << Seg("heading", <<"New Quote Request">>),
     Seg("name", esc(TextOf(b["fullName"]))),
     Seg("email", esc(TextOf(b["email"]))),
     Seg("phone", esc(TextOf(b["phone"]))) >>
  \o (IF Truthy(b["company"]) THEN << Seg("company", esc(TextOf(b["company"]))) >> ELSE <<>>)
  \o << Seg("category", esc(TextOf(b["category"]))),
        Seg("service", esc(TextOf(b["service"]))) >>
  \o (IF Truthy(b["budget"]) THEN << Seg("budget", esc(TextOf(b["budget"]))) >> ELSE <<>>)
  \o (IF Truthy(b["timeline"]) THEN << Seg("timeline", esc(TextOf(b["timeline"]))) >> ELSE <<>>)
  \o << Seg("brief", nl2br(esc(TextOf(b["brief"])))) >>
  \o (IF b["goals"].arr /\ b["goals"].items # <<>>
      THEN << Seg("goals",
                  JoinComma([i \in 1..Len(b["goals"].items) |-> esc(b["goals"].items[i])])) >>
      ELSE <<>>)
  \o (IF Truthy(b["references"])
      THEN << Seg("references", nl2br(esc(TextOf(b["references"])))) >>
      ELSE <<>>)
  \o EscFooter(b)

\* A subject that leaves the submission's values out.
SubjectCaptchaMut(b) == IF IsContact(b) THEN <<"New Contact - ">> ELSE <<"New Quote - ">>

\* The reCAPTCHA handler's subject: the values are interpolated as they came
\* (the fixed parts stand for the source's emoji-and-dash prefixes).
SubjectCaptcha(b) ==
  IF IsContact(b)
  THEN <<"New Contact - ">> \o Interp(b["name"])
  ELSE <<"New Quote - ">> \o Interp(b["category"]) \o <<" / ">> \o Interp(b["service"])
       \o <<" - ">> \o Interp(b["fullName"])

\* ---------------------------------------------------------------- inputs
\* What a request carries on the wire: a JSON object / form with fields,
\* the JSON literal null, or bytes that do not parse.
Wires ==
  {[raw |-> "object", fields |-> b] : b \in Bodies}
  \cup {[raw |-> "null", fields |-> EmptyFields], [raw |-> "malformed", fields |-> EmptyFields]}

\* A body as a handler holds it: null, or a mapping of fields.
NullBody == [null |-> TRUE, fields |-> EmptyFields]
ObjBody(b) == [null |-> FALSE, fields |-> b]

\* The messages the mail transport throws with.
TransportErrors == {"Invalid login: 535 auth failed", "connect ECONNREFUSED"}
SendOutcomes == {"ok"} \cup TransportErrors

\* The temp file of an upload when the handler reaches for it: there and
\* readable, gone, or there but failing to read.
FsStates == {"ok", "missing", "unreadable"}

\* ---------------------------------------------------------------- state
VARIABLES
  pc,         \* where the handler stands: idle, parsing, captcha, sending, done
  req,        \* the request: handler, method, content type
  body,       \* the normalized body, once read
  parsed,     \* how the body was read: no, platform, formidable, json, degraded
  wire,       \* the fields as the client sent them, known once the body is read
  file,       \* the uploaded file part, once parsed
  fsState,    \* what the file system did when the temp file was read (na: not touched)
  secret,     \* RECAPTCHA_SECRET as the handler read it: unread, set, unset
  captcha,    \* the verification call: none, pending, success, failure, throws
  fetchCalls, \* calls of fetch() to the verification service
  sendCalls,  \* calls of transporter.sendMail
  mail,       \* the argument of sendMail
  transport,  \* what sendMail did: none, ok, or the thrown message
  res         \* the response: status 0 while none was sent

vars ==
  <<pc, req, body, parsed, wire, file, fsState, secret, captcha, fetchCalls, sendCalls,
    mail, transport, res>>

NoReq == [handler |-> "", method |-> "", ctype |-> ""]
NoMail == [sent |-> FALSE, subject |-> <<>>, html |-> <<>>, attachments |-> <<>>]
NoRes == [status |-> 0, form |-> "", success |-> "", error |-> "", cors |-> FALSE]
NoTransport == [result |-> "none", message |-> ""]

Init ==
  /\ pc = "idle"
  /\ req = NoReq
  /\ body = ObjBody(EmptyFields)
  /\ wire = EmptyFields
  /\ parsed = "no"
  /\ file = NoFile
  /\ fsState = "na"
  /\ secret = "unread"
  /\ captcha = "none"
  /\ fetchCalls = 0
  /\ sendCalls = 0
  /\ mail = NoMail
  /\ transport = NoTransport
  /\ res = NoRes

\* ---------------------------------------------------------------- steps
\* res.status(st).json({success?, error?}) or .end(): the handler returns.
Reply(st, form, success, error) ==
  /\ res' = [status |-> st, form |-> form, success |-> success, error |-> error, cors |-> TRUE]
  /\ pc' = "done"
  /\ UNCHANGED <<mail, sendCalls>>

\* await transporter.sendMail({subject, html, attachments})
CallSendMail(subject, html, attachments) ==
  /\ mail' = [sent |-> TRUE, subject |-> subject, html |-> html, attachments |-> attachments]
  /\ sendCalls' = sendCalls + 1
  /\ res' = [res EXCEPT !.cors = TRUE]
  /\ pc' = "sending"

\* Method checks without the 405 branch.
MethodGateMut(m) == IF m = "OPTIONS" THEN "preflight" ELSE "pass"

\* The method checks every handler opens with.
MethodGate(m) ==
  IF m = "OPTIONS" THEN "preflight" ELSE IF m # "POST" THEN "notAllowed" ELSE "pass"

\* The reply of a request the method checks stop.
GateReply(m) ==
  IF MethodGate(m) = "preflight"
  THEN Reply(200, "end", "", "")
  ELSE Reply(405, "json", "", "Method not allowed")

\* req.body as the platform's body parser leaves it: the object of a JSON
\* request, null for the literal null, nothing with fields otherwise.
PlatformBody(ct, w) ==
  IF ct = "application/json" /\ w.raw = "object" THEN ObjBody(w.fields) ELSE NullBody

\* req.body || {}
OrEmptyObject(b) == IF b.null THEN ObjBody(EmptyFields) ELSE b

\* A kind check that lets every body through.
KindMissingMut(b) == FALSE

\* !body.kind
KindMissing(b) == ~Truthy(b["kind"])

\* !body.kind || !body.name || !body.email
InvalidKindNameEmail(b) == KindMissing(b) \/ ~Truthy(b["name"]) \/ ~Truthy(b["email"])

\* !body.kind || !body.email
InvalidKindEmail(b) == KindMissing(b) \/ ~Truthy(b["email"])

\* What a catch block puts in the response's error field for a thrown message.
CatchText(h, msg) ==
  IF h = CaptchaJson THEN "Failed to send email"
  ELSE IF h \in {NotifyFormCors, MixedHandler}
       THEN (IF msg = "" THEN "Internal server error" ELSE msg)
       ELSE msg

\* formidable hands every field over as the list of its values.
FormFields(b) == [f \in FieldNames |-> IF b[f] = Absent THEN Absent ELSE Arr(b[f].items)]

\* body[k] = Array.isArray(v) ? v[0] : v, for every field.
Flatten(b) ==
  [f \in FieldNames |->
     IF b[f].arr
     THEN (IF b[f].items = <<>> THEN Absent ELSE Str(b[f].items[1]))
     ELSE b[f]]

\* A parseJsonBody whose failed parse yields no object.
ParseJsonBodyMut(w) == IF w.raw = "object" THEN ObjBody(w.fields) ELSE NullBody

\* parseJsonBody: JSON.parse of the raw body, {} when it throws.
ParseJsonBody(w) ==
  IF w.raw = "malformed" THEN ObjBody(EmptyFields)
  ELSE IF w.raw = "null" THEN NullBody
  ELSE ObjBody(w.fields)

\* file.originalFilename || "attachment"
NameOrDefault(f) == IF f.originalFilename = <<>> THEN <<"attachment">> ELSE f.originalFilename

Attachment(name, f) == [filename |-> name, content |-> f.bytes]

\* An attachments array that names every upload "attachment".
BuildAttachmentsMut(h, f, fs) ==
  IF f.present /\ fs = "ok"
  THEN [threw |-> FALSE, list |-> <<Attachment(<<"attachment">>, f)>>]
  ELSE [threw |-> FALSE, list |-> <<>>]

\* The attachments array each handler builds, and whether building it threw
\* past the handler's own try block.
\*   notify.ts: readFileSync inside try/catch, a failed read leaves the array empty;
\*   second file: existsSync guards the read, a read that still fails throws.
BuildAttachments(h, f, fs) ==
  IF ~f.present THEN [threw |-> FALSE, list |-> <<>>]
  ELSE IF h = NotifyForm
  THEN [threw |-> FALSE,
        list |-> IF fs = "ok" THEN <<Attachment(f.originalFilename, f)>> ELSE <<>>]
  ELSE IF h = NotifyFormCors
  THEN [threw |-> FALSE,
        list |-> IF fs = "ok" THEN <<Attachment(NameOrDefault(f), f)>> ELSE <<>>]
  ELSE IF fs = "missing" THEN [threw |-> FALSE, list |-> <<>>]
  ELSE IF fs = "unreadable" THEN [threw |-> TRUE, list |-> <<>>]
  ELSE [threw |-> FALSE, list |-> <<Attachment(NameOrDefault(f), f)>>]

\* The validation each stream handler runs on the flattened body.
StreamInvalid(h, b) ==
  IF h \in {NotifyForm, NotifyFormCors} THEN InvalidKindNameEmail(b) ELSE InvalidKindEmail(b)

StreamInvalidText(h) ==
  IF h \in {NotifyForm, NotifyFormCors} THEN "Invalid request body" ELSE "Missing required fields"

\* The HTML template of each handler without a reCAPTCHA check.
Html(h, b, f) ==
  CASE h = NotifyJson -> HtmlNotifyJson(b)
    [] h = NotifyForm -> HtmlNotifyForm(b, f)
    [] h = NotifyFormCors -> HtmlNotifyFormCors(b, f)
    [] h = FormHandler -> HtmlForm(b, f)
    [] h = MixedHandler -> HtmlMixed(b, f)
    [] OTHER -> HtmlJson(b)

\* The two handlers that read req.body and check kind, name and email.
BodyStart(h, m, ct, w) ==
  /\ pc = "idle"
  /\ h \in BodyHandlers
  /\ w.raw # "malformed"
  /\ m # "POST" => w.raw = "null"
  /\ req' = [handler |-> h, method |-> m, ctype |-> ct]
  /\ UNCHANGED <<file, fsState, secret, captcha, fetchCalls, transport>>
  /\ IF MethodGate(m) # "pass"
     THEN GateReply(m) /\ UNCHANGED <<body, parsed, wire>>
     ELSE LET b == OrEmptyObject(PlatformBody(ct, w)) IN
          /\ body' = b
          /\ parsed' = "platform"
          /\ wire' = b.fields
          /\ IF InvalidKindNameEmail(b.fields)
             THEN Reply(400, "json", "false", "Invalid request body")
             ELSE CallSendMail(FixedSubject(b.fields), Html(h, b.fields, NoFile), <<>>)

\* The reCAPTCHA handler from its try block on: subject, template, send.
CaptchaCompose(b) ==
  IF IsContact(b)
  THEN IF ~Truthy(b["name"]) \/ ~Truthy(b["email"]) \/ ~Truthy(b["message"])
       THEN Reply(400, "json", "", "Missing required fields")
       ELSE CallSendMail(SubjectCaptcha(b), HtmlCaptchaContact(b), <<>>)
  ELSE IF IsQuote(b)
       THEN CallSendMail(SubjectCaptcha(b), HtmlCaptchaQuote(b), <<>>)
       ELSE Reply(400, "json", "", "Unknown kind")

\* The reCAPTCHA handler up to its first await: the fetch when a secret is
\* set, else sendMail.
CaptchaStart(m, ct, w, s) ==
  /\ pc = "idle"
  /\ w.raw # "malformed"
  /\ m # "POST" => w.raw = "null"
  /\ req' = [handler |-> CaptchaJson, method |-> m, ctype |-> ct]
  /\ UNCHANGED <<file, fsState, transport>>
  /\ IF MethodGate(m) # "pass"
     THEN GateReply(m) /\ UNCHANGED <<body, parsed, wire, secret, captcha, fetchCalls>>
     ELSE LET b == OrEmptyObject(PlatformBody(ct, w)) IN
          /\ body' = b
          /\ parsed' = "platform"
          /\ wire' = b.fields
          /\ IF KindMissing(b.fields)
             THEN /\ Reply(400, "json", "", "Invalid payload: missing kind")
                  /\ UNCHANGED <<secret, captcha, fetchCalls>>
             ELSE /\ secret' = IF s THEN "set" ELSE "unset"
                  /\ IF ~s
                     THEN CaptchaCompose(b.fields) /\ UNCHANGED <<captcha, fetchCalls>>
                     ELSE IF ~Truthy(b.fields["recaptchaToken"])
                     THEN /\ Reply(400, "json", "", "Missing reCAPTCHA token")
                          /\ UNCHANGED <<captcha, fetchCalls>>
                     ELSE /\ fetchCalls' = fetchCalls + 1
                          /\ captcha' = "pending"
                          /\ pc' = "captcha"
                          /\ res' = [res EXCEPT !.cors = TRUE]
                          /\ UNCHANGED <<mail, sendCalls>>

\* A verification whose own failure lets the request through.
CaptchaPassesMut(outcome) == outcome # "failure"

\* Does the verification's outcome let the request go on?
CaptchaPasses(outcome) == outcome = "success"

\* The verification call returns: siteverify said success or not, or the
\* fetch / the response's json() threw.
CaptchaReturn(outcome) ==
  /\ pc = "captcha"
  /\ outcome \in {"success", "failure", "throws"}
  /\ captcha' = outcome
  /\ UNCHANGED <<req, body, parsed, wire, file, fsState, secret, fetchCalls, transport>>
  /\ IF CaptchaPasses(outcome)
     THEN CaptchaCompose(body.fields)
     ELSE IF outcome = "failure"
     THEN Reply(400, "json", "", "reCAPTCHA failed")
     ELSE Reply(400, "json", "", "reCAPTCHA verification error")

\* The four handlers that read the request stream, up to their await of the parse.
StreamStart(h, m, ct) ==
  /\ pc = "idle"
  /\ h \in FormidableHandlers \cup {MixedHandler}
  /\ req' = [handler |-> h, method |-> m, ctype |-> ct]
  /\ UNCHANGED <<body, parsed, wire, file, fsState, secret, captcha, fetchCalls, transport>>
  /\ IF MethodGate(m) # "pass"
     THEN GateReply(m)
     ELSE /\ pc' = "parsing"
          /\ res' = [res EXCEPT !.cors = TRUE]
          /\ UNCHANGED <<mail, sendCalls>>

\* From the validated body to sendMail: the attachments array, the template, the call.
AttachAndSend(h, b, f, fs) ==
  LET built == BuildAttachments(h, f, fs) IN
  /\ fsState' = IF f.present THEN fs ELSE "na"
  /\ IF built.threw
     THEN Reply(500, "json", "false", CatchText(h, "EACCES: permission denied"))
     ELSE CallSendMail(FixedSubject(b), Html(h, b, f), built.list)

\* A stream handler after formidable parsed the request: flatten, pick the
\* file, validate, attach, send.
AfterFormidable(h, w, f, fs) ==
  LET b == Flatten(FormFields(w.fields)) IN
  /\ body' = ObjBody(b)
  /\ wire' = w.fields
  /\ parsed' = "formidable"
  /\ file' = f
  /\ IF StreamInvalid(h, b)
     THEN Reply(400, "json", "false", StreamInvalidText(h)) /\ fsState' = "na"
     ELSE AttachAndSend(h, b, f, fs)

\* form.parse rejected: the handler's catch block answers.
ParseThrew(h) ==
  /\ parsed' = "failed"
  /\ Reply(500, "json", "false", CatchText(h, "formidable: parse error"))
  /\ UNCHANGED <<body, wire, file, fsState>>

\* The three formidable handlers when form.parse settles.  What formidable
\* makes of a body that is no well-formed form is the library's affair: it
\* may reject, or hand over no fields.
FormidableParsed(w, f, fs, outcome) ==
  /\ pc = "parsing"
  /\ req.handler \in FormidableHandlers
  /\ outcome \in {"ok", "throw"}
  /\ req.ctype # "multipart/form-data" => f = NoFile
  /\ ~f.present => fs = "ok"
  /\ w.raw # "object" => (f = NoFile /\ fs = "ok")
  /\ outcome = "throw" => w.raw = "malformed"
  /\ UNCHANGED <<req, secret, captcha, fetchCalls, transport>>
  /\ IF outcome = "throw"
     THEN ParseThrew(req.handler)
     ELSE AfterFormidable(req.handler, w, f, fs)

\* The multipart-or-JSON handler when its parse settles: formidable for
\* multipart, parseJsonBody for everything else.
MixedParsed(w, f, fs, outcome) ==
  /\ pc = "parsing"
  /\ req.handler = MixedHandler
  /\ outcome \in {"ok", "throw"}
  /\ req.ctype # "multipart/form-data" => (f = NoFile /\ outcome = "ok")
  /\ ~f.present => fs = "ok"
  /\ w.raw # "object" => (f = NoFile /\ fs = "ok")
  /\ outcome = "throw" => w.raw = "malformed"
  /\ UNCHANGED <<req, secret, captcha, fetchCalls, transport>>
  /\ IF req.ctype = "multipart/form-data"
     THEN IF outcome = "throw"
          THEN ParseThrew(MixedHandler)
          ELSE AfterFormidable(MixedHandler, w, f, fs)
     ELSE LET b == ParseJsonBody(w) IN
          /\ body' = b
          /\ parsed' = IF w.raw = "malformed" THEN "degraded" ELSE "json"
          /\ wire' = w.fields
          /\ file' = NoFile
          /\ fsState' = "na"
          /\ IF b.null
             THEN Reply(500, "json", "false",
                        CatchText(MixedHandler, "Cannot read properties of null"))
             ELSE IF InvalidKindEmail(b.fields)
             THEN Reply(400, "json", "false", "Missing required fields")
             ELSE CallSendMail(FixedSubject(b.fields), Html(MixedHandler, b.fields, NoFile), <<>>)

\* A handler that sends once more after a failed send.
SendReturnMut(outcome) ==
  /\ pc = "sending"
  /\ outcome \in SendOutcomes
  /\ UNCHANGED <<req, body, parsed, wire, file, fsState, secret, captcha, fetchCalls>>
  /\ IF outcome = "ok"
     THEN /\ transport' = [result |-> "ok", message |-> ""]
          /\ Reply(200, "json", "true", "")
     ELSE /\ transport' = [result |-> "error", message |-> outcome]
          /\ IF sendCalls < 2
             THEN CallSendMail(mail.subject, mail.html, mail.attachments)
             ELSE Reply(500, "json", "false", CatchText(req.handler, outcome))

\* sendMail settles: the message id comes back, or the transport throws.
SendReturn(outcome) ==
  /\ pc = "sending"
  /\ outcome \in SendOutcomes
  /\ UNCHANGED <<req, body, parsed, wire, file, fsState, secret, captcha, fetchCalls>>
  /\ IF outcome = "ok"
     THEN /\ transport' = [result |-> "ok", message |-> ""]
          /\ Reply(200, "json", "true", "")
     ELSE /\ transport' = [result |-> "error", message |-> outcome]
          /\ Reply(500, "json", "false", CatchText(req.handler, outcome))

Next ==
  \/ /\ pc = "idle"
     /\ \E h \in BodyHandlers, m \in Methods, ct \in CTypes, w \in Wires :
          BodyStart(h, m, ct, w)
  \/ /\ pc = "idle"
     /\ \E m \in Methods, ct \in CTypes, w \in Wires, s \in BOOLEAN : CaptchaStart(m, ct, w, s)
  \/ /\ pc = "captcha"
     /\ \E outcome \in {"success", "failure", "throws"} : CaptchaReturn(outcome)
  \/ /\ pc = "idle"
     /\ \E h \in FormidableHandlers \cup {MixedHandler}, m \in Methods, ct \in CTypes :
          StreamStart(h, m, ct)
  \/ /\ pc = "parsing" /\ req.handler \in FormidableHandlers
     /\ \E w \in Wires, f \in Files, fs \in FsStates, outcome \in {"ok", "throw"} :
          FormidableParsed(w, f, fs, outcome)
  \/ /\ pc = "parsing" /\ req.handler = MixedHandler
     /\ \E w \in Wires, f \in Files, fs \in FsStates, outcome \in {"ok", "throw"} :
          MixedParsed(w, f, fs, outcome)
  \/ /\ pc = "sending"
     /\ \E outcome \in SendOutcomes : SendReturn(outcome)

Spec == Init /\ [][Next]_vars

\* ---------------------------------------------------------------- properties
\* The body was read and is a mapping of fields.
HasFields == parsed \in {"platform", "formidable", "json", "degraded"} /\ ~body.null

Field(f) == body.fields[f]

\* C1: a POST whose normalized field mapping has no kind (or an empty one),
\* whatever else it holds, is answered 400, and sendMail is not called.
C1_MissingKindIs400 ==
  (req.method = "POST" /\ HasFields /\ ~Truthy(Field("kind")))
    => (pc = "done" /\ res.status = 400 /\ sendCalls = 0 /\ ~mail.sent)

\* C1 witness: a body with name and email but no kind was answered 400.
C1_Witness ==
  /\ pc = "done" /\ req.method = "POST" /\ HasFields
  /\ ~Truthy(Field("kind")) /\ Truthy(Field("name")) /\ Truthy(Field("email"))
  /\ res.status = 400

\* C2: with a reCAPTCHA secret set, sendMail is called only after the
\* verification returned success; a missing token, success=false and a
\* throwing verification each end in 400 without a sendMail call.
C2_SendOnlyAfterCaptcha ==
  secret = "set" =>
    /\ sendCalls > 0 => captcha = "success"
    /\ captcha \in {"failure", "throws"} =>
         (pc = "done" /\ res.status = 400 /\ sendCalls = 0)
    /\ ~Truthy(Field("recaptchaToken")) =>
         (pc = "done" /\ res.status = 400 /\ sendCalls = 0 /\ fetchCalls = 0)

\* C2 witness: the verification call threw and the request ended in 400.
C2_Witness ==
  secret = "set" /\ captcha = "throws" /\ pc = "done" /\ res.status = 400 /\ fetchCalls = 1

\* The reCAPTCHA handler's validation of the fields fails: no kind, a contact
\* without name, email or message, or a kind it does not know.
CaptchaValidationFails ==
  /\ req.handler = CaptchaJson /\ HasFields
  /\ \/ ~Truthy(Field("kind"))
     \/ IsContact(body.fields)
          /\ (~Truthy(Field("name")) \/ ~Truthy(Field("email")) \/ ~Truthy(Field("message")))
     \/ Truthy(Field("kind")) /\ ~IsContact(body.fields) /\ ~IsQuote(body.fields)

\* C3: a request whose fields fail validation ends in 400 with neither the
\* verification service called nor sendMail called.
C3_ValidationBeforeCaptcha ==
  CaptchaValidationFails =>
    (fetchCalls = 0 /\ sendCalls = 0 /\ (pc = "done" => res.status = 400))

\* C4: wherever sendMail is called the body has a non-empty kind, a
\* non-empty email and a non-empty name or fullName.
C4_SendNeedsKindEmailName ==
  sendCalls > 0 =>
    /\ Truthy(Field("kind"))
    /\ Truthy(Field("email"))
    /\ (Truthy(Field("name")) \/ Truthy(Field("fullName")))

\* C5: OPTIONS gets 200 with an empty body, every other method but POST
\* gets 405; in both cases no body is parsed, no CAPTCHA check is made and
\* sendMail is not called.
C5_PostOnly ==
  (req.method \in Methods \ {"POST"}) =>
    /\ pc = "done"
    /\ IF req.method = "OPTIONS"
       THEN res.status = 200 /\ res.form = "end"
       ELSE res.status = 405
    /\ parsed = "no" /\ secret = "unread" /\ fetchCalls = 0 /\ sendCalls = 0

\* C5 witness: a GET was answered 405.
C5_Witness == req.method = "GET" /\ pc = "done" /\ res.status = 405 /\ parsed = "no"

\* The texts a handler answers with where it does not pass an error on.
GenericErrors == {"Failed to send email", "Internal server error"}

\* C6: when the mail transport fails the answer is 500 with success false
\* and a fixed error text that is not the transport's own message.
C6_OpaqueTransportError ==
  transport.result = "error" =>
    /\ res.status = 500 /\ res.success = "false"
    /\ res.error \in GenericErrors
    /\ res.error # transport.message

\* The handler went past validation with an upload named "attachment".
UploadHandled == parsed = "formidable" /\ file.present /\ fsState # "na"

AttachmentCarriesUpload ==
  /\ mail.sent
  /\ Len(mail.attachments) = 1
  /\ mail.attachments[1].content = file.bytes
  /\ file.originalFilename # <<>> => mail.attachments[1].filename = file.originalFilename

\* C7 as stated: every valid multipart submission with a file part reaches
\* sendMail with exactly one attachment of the upload's name and bytes, a
\* JSON submission with none, and no request with more than one.
C7_Original ==
  /\ UploadHandled => AttachmentCarriesUpload
  /\ (mail.sent /\ req.ctype # "multipart/form-data") => mail.attachments = <<>>
  /\ Len(mail.attachments) <= 1

\* C7 amended: a valid multipart submission with a file part whose temp file
\* is there and is read reaches sendMail with exactly one attachment, of the
\* upload's original name (where it has one) and bytes; a JSON submission
\* reaches it with none; no request passes more than one.
C7_AttachmentRoundTrip ==
  /\ (UploadHandled /\ fsState = "ok") => AttachmentCarriesUpload
  /\ (mail.sent /\ req.ctype # "multipart/form-data") => mail.attachments = <<>>
  /\ Len(mail.attachments) <= 1

\* C7 witness: a named upload was read and sent as the one attachment.
C7_Witness ==
  /\ UploadHandled /\ fsState = "ok" /\ file.originalFilename = Hostile
  /\ mail.sent /\ Len(mail.attachments) = 1 /\ mail.attachments[1].filename = Hostile

\* C8: no text of the HTML body handed to sendMail holds a raw &, <, >, " or '.
C8_HtmlEscaped ==
  mail.sent =>
    \A i \in DOMAIN mail.html :
      \A j \in DOMAIN mail.html[i].text : mail.html[i].text[j] \notin MetaChars

MailHeading == mail.html[1].text

\* C10 as stated: kind "quote" is handled as Quote, any other non-empty kind
\* as Contact, and no request is rejected for the value of its kind.
C10_Original ==
  (HasFields /\ Truthy(Field("kind"))) =>
    /\ res.error # "Unknown kind"
    /\ mail.sent =>
         MailHeading = IF IsQuote(body.fields) THEN <<"New Quote Request">>
                       ELSE <<"New Contact Message">>

\* C10 amended: kind "quote" is handled as Quote; any other non-empty kind is
\* handled as Contact by every handler but the reCAPTCHA one, which handles
\* "contact" as Contact and answers any other kind with 400 "Unknown kind".
C10_Classification ==
  (HasFields /\ Truthy(Field("kind"))) =>
    /\ mail.sent =>
         MailHeading = IF IsQuote(body.fields) THEN <<"New Quote Request">>
                       ELSE <<"New Contact Message">>
    /\ res.error = "Unknown kind" <=>
         /\ req.handler = CaptchaJson /\ pc = "done"
         /\ ~IsQuote(body.fields) /\ ~IsContact(body.fields)
         /\ secret = "unset" \/ captcha = "success"
    /\ res.error = "Unknown kind" => (res.status = 400 /\ sendCalls = 0)

\* C10 witness: a mail for kind "feedback" went out under the contact heading.
C10_Witness ==
  /\ mail.sent /\ Field("kind") = Str(<<"feedback">>)
  /\ MailHeading = <<"New Contact Message">>

\* The sender's name as the templates pick it: name, else fullName.
SenderText == IF Truthy(Field("name")) THEN TextOf(Field("name")) ELSE TextOf(Field("fullName"))

SubjectWithName(t) ==
  IF IsContact(body.fields)
  THEN SubjectCaptcha([body.fields EXCEPT !["name"] = Str(t)])
  ELSE SubjectCaptcha([body.fields EXCEPT !["fullName"] = Str(t)])

C12_NoRetries ==
  /\ fetchCalls <= 1
  /\ sendCalls <= 1
  /\ transport.result = "error" => (pc = "done" /\ res.status = 500 /\ sendCalls = 1)
  /\ captcha \in {"failure", "throws"} => (pc = "done" /\ fetchCalls = 1)

\* C12 witness: after one verification call the one send failed and the
\* request was answered.
C12_Witness ==
  transport.result = "error" /\ fetchCalls = 1 /\ sendCalls = 1 /\ pc = "done"

\* The free-text fields whose newlines become line breaks.
FreeTextParts == {"message", "brief", "references"}

\* C13: in the body of every mail each free-text value (message, brief,
\* references) is escaped and then has its newlines replaced: a <br> stands
\* at each newline position, no newline is left, and no typed markup
\* character is left raw.
C13_EscapeThenBreak ==
  mail.sent =>
    \A i \in DOMAIN mail.html :
      (mail.html[i].part \in FreeTextParts /\ Truthy(Field(mail.html[i].part))) =>
        LET v == TextOf(Field(mail.html[i].part))
            t == mail.html[i].text
        IN /\ Len(t) = Len(v)
           /\ \A j \in 1..Len(v) :
                /\ v[j] = "\n" => t[j] = "<br>"
                /\ t[j] # "\n"
                /\ t[j] \notin MetaChars

\* The client sent field f with several values.
MultiValued(f) == wire[f].arr /\ Len(wire[f].items) > 1

\* C14: normalizing a multipart body collapses every multi-valued field to
\* its first value, except goals: a goals field sent with several values
\* stays the full list, in order, and is rendered as all its values joined
\* by commas.
C14_GoalsKeptAsList ==
  (parsed = "formidable" /\ req.ctype = "multipart/form-data") =>
    \A f \in FieldNames :
      MultiValued(f) =>
        IF f = "goals"
        THEN /\ Field(f) = Arr(wire[f].items)
             /\ mail.sent =>
                  \A i \in DOMAIN mail.html :
                    mail.html[i].part = "goals" => mail.html[i].text = JoinComma(wire[f].items)
        ELSE Field(f) = Str(wire[f].items[1])

\* C15: when the upload's temp file is missing or cannot be read, also when
\* the read fails after the existence check, the submission is still sent,
\* with no attachment, and the request is not answered 500 for it.
C15_UnreadableFileNotFatal ==
  fsState \in {"missing", "unreadable"} =>
    /\ mail.sent /\ mail.attachments = <<>>
    /\ res.status = 500 => transport.result = "error"
    /\ (pc = "done" /\ transport.result = "ok") => res.status = 200

\* The parts of a mail body, in the order it holds them.
MailParts == [i \in DOMAIN mail.html |-> mail.html[i].part]

QuoteParts ==
  {"company", "category", "service", "budget", "timeline", "goals", "references", "brief"}

\* The place of each part in the order heading, name, email, phone,
\* kind-specific fields, then the last two places as given.
PartRank(part, footerRank, attachmentRank) ==
  CASE part = "heading" -> 1
    [] part = "name" -> 2
    [] part \in {"emailHref", "email"} -> 3
    [] part = "phone" -> 4
    [] part \in QuoteParts \cup {"message"} -> 5
    [] part = "submitted" -> footerRank
    [] part = "attachment" -> attachmentRank

InOrder(footerRank, attachmentRank) ==
  \A i, j \in DOMAIN MailParts :
    i < j => PartRank(MailParts[i], footerRank, attachmentRank)
               <= PartRank(MailParts[j], footerRank, attachmentRank)

\* Heading, name, email and phone are in every body.
PartsComplete ==
  {"heading", "name", "email", "phone"} \subseteq {MailParts[i] : i \in DOMAIN MailParts}

HasAttachmentLine == \E i \in DOMAIN MailParts : MailParts[i] = "attachment"

\* C16 as stated: the parts come as heading, name, email, phone, the
\* kind-specific fields, the timestamp footer, and last the attachment
\* line, which appears only with an upload and never before the footer.
C16_Original ==
  mail.sent =>
    /\ PartsComplete
    /\ InOrder(6, 7)
    /\ HasAttachmentLine => mail.attachments # <<>>

\* C16 amended: the parts come as heading, name, email, phone, the
\* kind-specific fields, then the attachment line where a file part was
\* uploaded, and last the timestamp footer where the template has one; the
\* attachment line appears only with an uploaded file part and never after
\* the footer.
C16_PartOrder ==
  mail.sent =>
    /\ PartsComplete
    /\ InOrder(7, 6)
    /\ HasAttachmentLine => file.present

\* C16 witness: a mail went out whose attachment line stands right before
\* its timestamp footer, the last part.
C16_Witness ==
  /\ mail.sent /\ file.present /\ Len(mail.html) >= 2
  /\ MailParts[Len(mail.html) - 1] = "attachment"
  /\ MailParts[Len(mail.html)] = "submitted"

====
